---------------------------- MODULE Spec2Model ----------------------------
(***************************************************************************)
(* Attend-Infer-Repeat: the variational objective construction of          *)
(* attend_infer_repeat/model.py (AIRModel) and the weighted loss           *)
(* accumulator of attend_infer_repeat/ops.py (Loss).                       *)
(*                                                                         *)
(* Numbers.  Tensors of floats are modelled in fixed point: the integer n  *)
(* stands for the real n / One.  Every product below is taken between a    *)
(* value and a weight, FMul(a, w) = a * w / One, and the input sets are    *)
(* multiples of BatchSize, so that the batch means are exact.              *)
(*                                                                         *)
(* Specifications.                                                         *)
(*   SpecLoss    the Loss accumulator under sequences of add calls         *)
(*   SpecAnneal  AIRModel._anneal_weight evaluated along global_step       *)
(*   SpecUnroll  the unrolled inference recurrence of AIRModel._build      *)
(*   SpecStepWeight  the analytic step weight of AIRModel._prior_loss      *)
(*   Spec        AIRModel.train_step: building the objective, running the  *)
(*               returned training step, running toggle_prior              *)
(***************************************************************************)
EXTENDS Integers, Sequences, FiniteSets, TLC

VARIABLES
    \* ---- SpecLoss
    losses,        \* the two Loss objects under construction: "acc" and "sub"
    lossErr,       \* the exception that aborted the construction, or "none"
    expected,      \* history: the weighted sums the add calls amount to
    nAdds,         \* history: the number of add calls so far
    lastCall,      \* history: the last add call, and its target before the call
    \* ---- SpecAnneal
    annealArgs,    \* the arguments of _anneal_weight
    annealStep,    \* global_step
    annealOut,     \* the value returned at the last evaluation
    \* ---- SpecUnroll, Spec
    discrete_steps,  \* AIRModel.discrete_steps
    \* ---- SpecUnroll
    cellT,         \* the steps of the recurrence taken so far
    cellPresence,  \* the cell's state: the presence carried into the next step
    decisions,     \* the continuation decision of each step, per sample
    presence,      \* the presence output of each step, per sample
    num_step_per_sample, \* AIRModel.num_step_per_sample, once unrolled
    \* ---- SpecStepWeight
    weightProb,    \* self.presence_prob: the continuation probabilities, per step
    weightOut,     \* self.prior_step_weight, once formed
    \* ---- Spec
    pc,            \* "constructed", then "ready" (train_step returned) or "raised"
    raised,        \* the exception train_step raised, or "none"
    args,          \* history: the arguments of the train_step call
    attrs,         \* what train_step left on the model: var lists, update ops
    use_prior,     \* the tf.Variable use_prior: "True", "False"; "None" if not made
    global_step,   \* tf.train.get_or_create_global_step()
    updates,       \* history: how often each trainable variable was updated
    feed,          \* the minibatch: what the external modules return for it
    out            \* the tensors' values in the last run of the training step

varsLoss   == <<losses, lossErr, expected, nAdds, lastCall>>
varsAnneal == <<annealArgs, annealStep, annealOut>>
varsUnroll == <<cellT, cellPresence, decisions, presence, num_step_per_sample>>
varsTrain  == <<pc, raised, args, attrs, use_prior, global_step, updates, feed, out>>
varsWeight == <<weightProb, weightOut>>
vars       == <<varsLoss, varsAnneal, discrete_steps, varsUnroll, varsTrain, varsWeight>>

---------------------------------------------------------------------------
(* Bounds *)

\* batch size: obs.get_shape()[0]
BatchSize == 2
\* max_steps of AIRModel.__init__
MaxSteps == 3
\* continuation probabilities are the multiples of 1 / ProbDen
ProbDen == 2
\* add calls in one construction of Loss objects
MaxAdds == 2

RECURSIVE Pow(_, _)
Pow(b, e) == IF e = 0 THEN 1 ELSE b * Pow(b, e - 1)

\* the fixed-point representation of 1.0
One == Pow(ProbDen, MaxSteps)

\* the product of two floats, one of which is a weight
FMul(a, w) == (a * w) \div One

Batch == 1..BatchSize
Steps == 1..MaxSteps

---------------------------------------------------------------------------
(* Tensors: a static shape and the data in row order.  NoneT is Python's   *)
(* None.                                                                   *)

NoneT == [shape |-> <<>>, data |-> <<>>]
Scalar(x) == [shape |-> <<>>, data |-> <<x>>]
Vector(s) == [shape |-> <<Len(s)>>, data |-> s]
get_shape(t) == t.shape

\* t * w for a scalar weight w: the shape is t's
TMul(t, w) == [t EXCEPT !.data = [k \in DOMAIN t.data |-> FMul(t.data[k], w)]]

\* a + b with numpy broadcasting of a scalar operand
TAdd(a, b) ==
    IF a.shape = b.shape
    THEN [a EXCEPT !.data = [k \in DOMAIN a.data |-> a.data[k] + b.data[k]]]
    ELSE IF a.shape = <<>>
    THEN [b EXCEPT !.data = [k \in DOMAIN b.data |-> a.data[1] + b.data[k]]]
    ELSE [a EXCEPT !.data = [k \in DOMAIN a.data |-> a.data[k] + b.data[1]]]

\* tf.zeros([])
zeros == Scalar(0)

RECURSIVE SeqSum(_)
SeqSum(s) == IF s = <<>> THEN 0 ELSE s[1] + SeqSum(Tail(s))

\* tf.reduce_mean over a vector
reduce_mean(s) == SeqSum(s) \div Len(s)

---------------------------------------------------------------------------
(* ops.py: class Loss *)

\* Loss.__init__
Loss == [_value |-> NoneT, _per_sample |-> NoneT]

isLoss(x) == "_value" \in DOMAIN x

\* faulty variant: the shape assertion dropped
_update_raises_unchecked(self, name, expr, weight) ==
    IF expr = NoneT THEN "TypeError" ELSE "none"

\* the exception Loss._update raises, or "none":
\*   expr *= weight with expr = None is a TypeError,
\*   assert value.get_shape() == expr.get_shape() an AssertionError
_update_raises(self, name, expr, weight) ==
    IF expr = NoneT THEN "TypeError"
    ELSE IF self[name] # NoneT /\ get_shape(self[name]) # get_shape(TMul(expr, weight))
    THEN "AssertionError"
    ELSE "none"

\* Loss._update, where it does not raise
_update(self, name, expr, weight) ==
    LET value == self[name]
        e     == TMul(expr, weight)
    IN  [self EXCEPT ![name] = IF value = NoneT THEN e ELSE TAdd(value, e)]

\* Loss.add: the object after the call and the exception it raised.  The two
\* _update calls run in order, so a failure of the second leaves _value updated.
add(self, loss, per_sample, weight) ==
    LET ps == IF isLoss(loss) THEN loss._per_sample ELSE per_sample
        l  == IF isLoss(loss) THEN loss._value ELSE loss
        e1 == _update_raises(self, "_value", l, weight)
        s1 == IF e1 = "none" THEN _update(self, "_value", l, weight) ELSE self
        e2 == IF e1 # "none" THEN e1 ELSE _update_raises(s1, "_per_sample", ps, weight)
        s2 == IF e2 = "none" THEN _update(s1, "_per_sample", ps, weight) ELSE s1
    IN  [self |-> s2, err |-> e2]

\* Loss._get_value: the name is not used
_get_value(self, name) ==
    LET v == self._value
    IN  IF v = NoneT THEN zeros ELSE v

\* Loss.value
value(self) == _get_value(self, "_value")

\* Loss.per_sample
per_sample(self) == _get_value(self, "_per_sample")

---------------------------------------------------------------------------
(* The variables of the other specifications, at rest *)

IdleAnnealVars ==
    /\ annealArgs = [anneal |-> "none"]
    /\ annealStep = 0
    /\ annealOut = [at |-> -1]

IdleUnrollVars ==
    /\ cellT = 0
    /\ cellPresence = <<>>
    /\ decisions = <<>>
    /\ presence = <<>>
    /\ num_step_per_sample = <<>>

IdleTrainVars ==
    /\ pc = "idle"
    /\ raised = "none"
    /\ args = <<>>
    /\ attrs = <<>>
    /\ use_prior = "None"
    /\ global_step = 0
    /\ updates = <<>>
    /\ feed = <<>>
    /\ out = <<>>

IdleWeightVars ==
    /\ weightProb = <<>>
    /\ weightOut = <<>>

IdleLossVars ==
    /\ losses = <<>>
    /\ lossErr = "none"
    /\ expected = <<>>
    /\ nAdds = <<>>
    /\ lastCall = <<>>

---------------------------------------------------------------------------
(* SpecLoss: Loss objects built by add calls.  "sub" is a component        *)
(* accumulator (as prior_loss in train_step), "acc" the one it is added to.*)

LossNames == {"acc", "sub"}
ScalarVals == {One, 2 * One}
VectorVals == UNION {[1..n -> {0, One}] : n \in 1..BatchSize}
WeightVals == {0, One, 2 * One}

\* the elementwise sum of the weighted vector into the history
ExpectedPerSample(old, new, w) ==
    IF old = <<>> THEN [k \in DOMAIN new |-> FMul(new[k], w)]
    ELSE [k \in DOMAIN old |-> old[k] + (IF k \in DOMAIN new THEN FMul(new[k], w) ELSE 0)]

NoCall == [target |-> "none", loss |-> NoneT, per_sample |-> NoneT, weight |-> 0,
           before |-> Loss]

InitLossVars ==
    /\ losses = [n \in LossNames |-> Loss]
    /\ lossErr = "none"
    /\ expected = [n \in LossNames |-> [value |-> 0, per_sample |-> <<>>]]
    /\ nAdds = [n \in LossNames |-> 0]
    /\ lastCall = NoCall

\* target.add(loss, per_sample, weight) with tensors, or None, as arguments
LossAdd(n, l, ps, w) ==
    LET r == add(losses[n], l, ps, w)
    IN  /\ lossErr = "none"
        /\ nAdds["acc"] + nAdds["sub"] < MaxAdds
        /\ losses' = [losses EXCEPT ![n] = r.self]
        /\ lossErr' = r.err
        /\ nAdds' = [nAdds EXCEPT ![n] = @ + 1]
        /\ lastCall' = [target |-> n, loss |-> l, per_sample |-> ps, weight |-> w,
                        before |-> losses[n]]
        /\ expected' = IF r.err = "none"
                       THEN [expected EXCEPT ![n] =
                               [value |-> @.value + FMul(l.data[1], w),
                                per_sample |-> ExpectedPerSample(@.per_sample, ps.data, w)]]
                       ELSE expected

\* acc.add(sub, weight=w): the added item is itself a Loss
LossAddLoss(w) ==
    LET r == add(losses["acc"], losses["sub"], NoneT, w)
    IN  /\ lossErr = "none"
        /\ nAdds["acc"] + nAdds["sub"] < MaxAdds
        /\ losses' = [losses EXCEPT !["acc"] = r.self]
        /\ lossErr' = r.err
        /\ nAdds' = [nAdds EXCEPT !["acc"] = @ + 1]
        /\ lastCall' = [target |-> "acc", loss |-> losses["sub"]._value,
                        per_sample |-> losses["sub"]._per_sample, weight |-> w,
                        before |-> losses["acc"]]
        /\ expected' = IF r.err = "none"
                       THEN [expected EXCEPT !["acc"] =
                               [value |-> @.value + FMul(expected["sub"].value, w),
                                per_sample |-> ExpectedPerSample(@.per_sample,
                                                   expected["sub"].per_sample, w)]]
                       ELSE expected

InitLoss ==
    /\ InitLossVars
    /\ IdleAnnealVars
    /\ discrete_steps = TRUE
    /\ IdleUnrollVars
    /\ IdleTrainVars
    /\ IdleWeightVars

NextLoss ==
    \/ \E n \in LossNames, l \in {Scalar(x) : x \in ScalarVals} \cup {NoneT},
          ps \in {Vector(v) : v \in VectorVals} \cup {NoneT}, w \in WeightVals :
            LossAdd(n, l, ps, w) /\ UNCHANGED <<varsAnneal, discrete_steps, varsUnroll, varsTrain, varsWeight>>
    \/ \E w \in WeightVals :
            LossAddLoss(w) /\ UNCHANGED <<varsAnneal, discrete_steps, varsUnroll, varsTrain, varsWeight>>

SpecLoss == InitLoss /\ [][NextLoss]_vars

---------------------------------------------------------------------------
(* model.py: AIRModel._anneal_weight.  The value is a rational, returned   *)
(* as num / den with den = anneal_steps > 0.  The 'exp' schedule           *)
(* (tf.pow, tf.train.exponential_decay) is transcendental and is not       *)
(* modelled; steps_div is read by that branch alone.                       *)

Max(a, b) == IF a >= b THEN a ELSE b

\* step = tf.maximum(step - hold_for, 0.)
effective_step(step, hold_for) == Max(step - hold_for, 0)

\* faulty variant: the value is returned unclamped
clamp_none(final_num, val_num) == val_num

\* anneal_weight = tf.maximum(final, val), both over the denominator anneal_steps
clamp(final_num, val_num) == Max(final_num, val_num)

_anneal_weight(init_val, final_val, anneal_type, gstep, anneal_steps, hold_for) ==
    LET step == effective_step(gstep, hold_for)
    IN  IF anneal_type = "linear"
        THEN \* val = final + (val - final) * (1. - step / anneal_steps)
             [err |-> "none",
              num |-> clamp(final_val * anneal_steps,
                            final_val * anneal_steps
                              + (init_val - final_val) * (anneal_steps - step)),
              den |-> anneal_steps]
        ELSE [err |-> "NotImplementedError", num |-> 0, den |-> 1]

---------------------------------------------------------------------------
(* SpecAnneal: a schedule is configured, then evaluated at global_step =   *)
(* 0, 1, 2, ... as the training steps advance it.                          *)

\* the values init and final are drawn from
MaxAnnealVal == 2
\* the largest anneal_steps
MaxAnnealSteps == 2
\* the largest hold_for
MaxHold == 1

\* global_step runs past the end of every schedule
MaxGlobalStep == MaxHold + MaxAnnealSteps + 2

AnnealArgs ==
    [init : 0..MaxAnnealVal, final : 0..MaxAnnealVal, anneal : {"linear", "cosine"},
     steps : 1..MaxAnnealSteps, hold_init : 0..MaxHold]

InitAnneal ==
    /\ annealArgs \in AnnealArgs
    /\ annealStep = 0
    /\ annealOut = [at |-> -1]
    /\ IdleLossVars
    /\ discrete_steps = TRUE
    /\ IdleUnrollVars
    /\ IdleTrainVars
    /\ IdleWeightVars

\* the schedule's value in one run of the graph, at the current global_step;
\* the run's apply_gradients then advances global_step
AnnealEval ==
    /\ annealStep <= MaxGlobalStep
    /\ (annealOut.at >= 0 => annealOut.err = "none")
    /\ annealOut' = [at |-> annealStep] @@
                     _anneal_weight(annealArgs.init, annealArgs.final, annealArgs.anneal,
                                    annealStep, annealArgs.steps, annealArgs.hold_init)
    /\ annealStep' = IF annealArgs.anneal = "linear" THEN annealStep + 1 ELSE annealStep
    /\ UNCHANGED annealArgs

NextAnneal == AnnealEval /\ UNCHANGED <<varsLoss, discrete_steps, varsUnroll, varsTrain, varsWeight>>

SpecAnneal == InitAnneal /\ [][NextAnneal]_vars

---------------------------------------------------------------------------
(* The inference recurrence.  AIRModel._build unrolls AIRCell max_steps    *)
(* times with tf.nn.dynamic_rnn over a dummy sequence; the cell is driven  *)
(* by its own state alone.  Of the cell, the model keeps what decides      *)
(* presence: the state starts with every sample still active, and with     *)
(* discrete_steps the presence bit of a step is the step's continuation    *)
(* decision gated by the presence carried in the state.  Without           *)
(* discrete_steps nothing gates the step's value.                          *)

\* AIRCell.initial_state: every sample is still active
initial_presence == [i \in Batch |-> 1]

\* AIRCell step: the presence output (and next state) of one step
cell_presence(discrete, prev, decision) ==
    [i \in Batch |-> IF discrete THEN prev[i] * decision[i] ELSE decision[i]]

\* tf.nn.dynamic_rnn(cell, dummy_sequence, initial_state, time_major=True):
\* the presence outputs of the steps 1..Len(ds), step-major
RECURSIVE dynamic_rnn(_, _, _)
dynamic_rnn(discrete, state, ds) ==
    IF ds = <<>> THEN <<>>
    ELSE LET o == cell_presence(discrete, state, Head(ds))
         IN  <<o>> \o dynamic_rnn(discrete, o, Tail(ds))

\* faulty variant: the sum runs over the batch axis, tf.reduce_sum(self.presence, 1)
reduce_sum_axis1(p) == [t \in DOMAIN p |-> SeqSum(p[t])]

\* tf.reduce_sum(self.presence, 0): over the steps, one entry per sample
reduce_sum_axis0(p) == [i \in Batch |-> SeqSum([t \in DOMAIN p |-> p[t][i]])]

---------------------------------------------------------------------------
(* SpecUnroll: the recurrence step by step, then the realized step count.  *)

InitUnroll ==
    /\ discrete_steps \in BOOLEAN
    /\ cellT = 0
    /\ cellPresence = initial_presence
    /\ decisions = <<>>
    /\ presence = <<>>
    /\ num_step_per_sample = <<>>
    /\ IdleLossVars
    /\ IdleAnnealVars
    /\ IdleTrainVars
    /\ IdleWeightVars

\* one step of the cell, whatever the continuation decisions d of the batch
CellStep(d) ==
    LET o == cell_presence(discrete_steps, cellPresence, d)
    IN  /\ cellT < MaxSteps
        /\ cellT' = cellT + 1
        /\ cellPresence' = o
        /\ decisions' = Append(decisions, d)
        /\ presence' = Append(presence, o)
        /\ UNCHANGED num_step_per_sample

\* self.num_step_per_sample = tf.to_float(tf.squeeze(tf.reduce_sum(self.presence, 0)))
CountSteps ==
    /\ cellT = MaxSteps
    /\ num_step_per_sample = <<>>
    /\ num_step_per_sample' = reduce_sum_axis0(presence)
    /\ UNCHANGED <<cellT, cellPresence, decisions, presence>>

NextUnroll ==
    \/ \E d \in [Batch -> {0, 1}] :
            CellStep(d) /\ UNCHANGED <<varsLoss, varsAnneal, discrete_steps, varsTrain, varsWeight>>
    \/ CountSteps /\ UNCHANGED <<varsLoss, varsAnneal, discrete_steps, varsTrain, varsWeight>>

SpecUnroll == InitUnroll /\ [][NextUnroll]_vars

---------------------------------------------------------------------------
(* Python values.  None is PyNone; an AttrDict is the record of its        *)
(* attributes.                                                             *)

PyNone == [py |-> "None"]
getattr(obj, name, default) == IF name \in DOMAIN obj THEN obj[name] ELSE default

\* a call in a chain of calls, the first exception ending the chain
Then(r, l, ps, w) == IF r.err # "none" THEN r ELSE add(r.self, l, ps, w)

RECURSIVE SetSum(_, _)
SetSum(f, S) == IF S = {} THEN 0
                ELSE LET x == CHOOSE y \in S : TRUE IN f[x] + SetSum(f, S \ {x})

---------------------------------------------------------------------------
(* The trainable variables.  The model's own are created by __init__; the  *)
(* baseline module's when _reinforce connects the module.                  *)

ModelParams == {"AIRModel/w", "AIRModel/b"}
BaselineParams == {"baseline/w", "baseline/b"}
Params == ModelParams \cup BaselineParams

\* len(w.get_shape()): weight matrices are 2-D, biases 1-D
rank(v) == IF v \in {"AIRModel/w", "baseline/w"} THEN 2 ELSE 1

---------------------------------------------------------------------------
(* The posterior over the step count.  prior.py is not among the sources;  *)
(* NumStepsDistribution.prob is the stick-breaking transform of the        *)
(* continuation probabilities.  A probability p stands for p / ProbDen,    *)
(* a posterior mass for its numerator over One = ProbDen ^ MaxSteps.       *)

RECURSIVE ProdFirst(_, _)
ProdFirst(p, k) == IF k = 0 THEN 1 ELSE ProdFirst(p, k - 1) * p[k]

\* the row of one sample: bin k (k steps taken) is entry k + 1
num_steps_prob(p) ==
    [b \in 1..(MaxSteps + 1) |->
        IF b <= MaxSteps
        THEN ProdFirst(p, b - 1) * (ProbDen - p[b]) * Pow(ProbDen, MaxSteps - b)
        ELSE ProdFirst(p, MaxSteps)]

\* posterior_step_probs = tf.transpose(tf.squeeze(self.presence_prob));
\* self.num_steps_distrib.prob(): [batch, max_steps + 1]
num_steps_posterior_prob(presence_prob) ==
    [i \in Batch |-> num_steps_prob([t \in Steps |-> presence_prob[t][i]])]

---------------------------------------------------------------------------
(* model.py: AIRModel._prior_loss *)

\* a presence bit as the float it is
ToFloat(bit) == bit * One

\* step_weight = num_steps_posterior_prob[..., 1:]
drop_bin0(q) == [i \in Batch |-> Tail(q[i])]

\* tf.transpose(step_weight, (1, 0))
transpose(m) == [t \in Steps |-> [i \in Batch |-> m[i][t]]]

\* faulty variant: tf.cumsum(step_weight, axis=0), not reversed
cumsum_forward(m) ==
    [t \in Steps |-> [i \in Batch |-> SeqSum([u \in 1..t |-> m[u][i]])]]

\* tf.cumsum(step_weight, axis=0, reverse=True)
cumsum_reverse(m) ==
    [t \in Steps |-> [i \in Batch |-> SeqSum([u \in 1..(MaxSteps - t + 1) |-> m[t + u - 1][i]])]]

\* self.prior_step_weight
prior_step_weight(nsp, q, pres) ==
    IF nsp.analytic
    THEN cumsum_reverse(transpose(drop_bin0(q)))
    ELSE [t \in Steps |-> [i \in Batch |-> ToFloat(pres[t][i])]]

\* tf.reduce_sum(kl * self.prior_step_weight, 0), kl summed over the latent axis
weighted_kl_per_sample(kl, w) ==
    [i \in Batch |-> SeqSum([t \in Steps |-> FMul(kl[t][i], w[t][i])])]

\* lines 132-143: self.steps_prior_success_prob at global_step = gstep, as the
\* rational num / den
steps_prior_success_prob(nsp, gstep) ==
    IF nsp.anneal # "None"
    THEN _anneal_weight(nsp.init, nsp.final, nsp.anneal, gstep, nsp.steps,
                        getattr(nsp, "hold_init", 0))
    ELSE [err |-> "none", num |-> nsp.init, den |-> 1]

\* prior_loss.add(mean, per_sample, weight=w) where the code's condition holds,
\* after the calls r before it
add_kl(cond, r, kl_per_sample, w) ==
    IF cond THEN Then(r, Scalar(reduce_mean(kl_per_sample)), Vector(kl_per_sample), w)
    ELSE r

\* the add calls of lines 155, 186 and 214 under the step weight sw; nsp.anneal is
\* None, so the prior's success probability is nsp.init, and the KL it enters
\* comes with the minibatch
prior_loss_terms(ar, nsp, fd, sw) ==
    add_kl(ar.where_scale_prior # PyNone /\ ar.where_shift_prior # PyNone,
           add_kl(ar.what_prior # PyNone,
                  add_kl(TRUE, [self |-> Loss, err |-> "none"], fd.kl_num_steps,
                         getattr(nsp, "weight", One)),
                  weighted_kl_per_sample(fd.what_kl, sw), One),
           weighted_kl_per_sample(fd.where_kl, sw), One)

\* what the call leaves: the Loss object returned, the exception raised, and
\* self.prior_step_weight
prior_loss_result(a, sw) == [loss |-> a.self, err |-> a.err, prior_step_weight |-> sw]

prior_loss_under(ar, nsp, fd, sw) == prior_loss_result(prior_loss_terms(ar, nsp, fd, sw), sw)

\* nsp is num_steps_prior, which is not None here: train_step has written its
\* 'analytic' entry (line 295)
_prior_loss(ar, nsp, fd, pres) ==
    prior_loss_under(ar, nsp, fd,
        prior_step_weight(nsp, num_steps_posterior_prob(fd.presence_prob), pres))

---------------------------------------------------------------------------
(* SpecStepWeight: the step weight of the analytic mode, formed from the   *)
(* continuation probabilities of a forward pass.  The first sample of the  *)
(* batch has one sequence of probabilities, the others a second one.       *)

PresenceProbs ==
    {[t \in Steps |-> [i \in Batch |-> IF i = 1 THEN p[t] ELSE q[t]]] :
        p \in [Steps -> 0..ProbDen], q \in [Steps -> 0..ProbDen]}

InitStepWeight ==
    /\ weightProb \in PresenceProbs
    /\ weightOut = <<>>
    /\ discrete_steps = TRUE
    /\ IdleLossVars
    /\ IdleAnnealVars
    /\ IdleUnrollVars
    /\ IdleTrainVars

\* lines 157-165 with num_steps_prior.analytic true; the presence is not read
StepWeightEval ==
    /\ weightOut = <<>>
    /\ weightOut' = prior_step_weight([analytic |-> TRUE],
                                      num_steps_posterior_prob(weightProb),
                                      [t \in Steps |-> initial_presence])
    /\ UNCHANGED weightProb

NextStepWeight ==
    StepWeightEval /\ UNCHANGED <<varsLoss, varsAnneal, discrete_steps, varsUnroll, varsTrain>>

SpecStepWeight == InitStepWeight /\ [][NextStepWeight]_vars

---------------------------------------------------------------------------
(* model.py: AIRModel._reinforce, with decay_rate = None *)

\* the module is connected, and its variables collected, when a module is given
baseline_connected(ar) == ar.use_reinforce /\ ar.baseline # PyNone

_reinforce(importance_weight, ar, fd) ==
    LET iw == IF ar.baseline # PyNone
              THEN [i \in Batch |-> importance_weight.data[i] - fd.baseline[i]]
              ELSE importance_weight.data
        reinforce_loss_per_sample == [i \in Batch |-> FMul(iw[i], fd.log_prob[i])]
    IN  [importance_weight |-> Vector(iw),
         reinforce_loss |-> Scalar(reduce_mean(reinforce_loss_per_sample))]

---------------------------------------------------------------------------
(* model.py: AIRModel.train_step *)

\* num_steps_prior['analytic'] = getattr(num_steps_prior, 'analytic', True)
with_analytic(nsp) == [analytic |-> getattr(nsp, "analytic", TRUE)] @@ nsp

\* self.use_reinforce = use_reinforce and self.discrete_steps
self_use_reinforce(ar, discrete) == ar.use_reinforce /\ discrete

\* whether the REINFORCE block (lines 337-344) is entered
reinforce_entered(ar, discrete) == ar.use_reinforce

\* self.prior_weight = tf.to_float(tf.equal(self.use_prior, True))
prior_weight(up) == IF up = "True" THEN One ELSE 0

\* tf.trainable_variables(), as line 347 reads it
trainable_variables(ar) ==
    ModelParams \cup (IF baseline_connected(ar) THEN BaselineParams ELSE {})

\* baseline_vars = getattr(self, 'baseline_vars', [])
baseline_vars(ar) == IF baseline_connected(ar) THEN BaselineParams ELSE {}

\* faulty variant: every trainable variable goes to the main optimizer
model_vars_all(ar) == trainable_variables(ar)

\* model_vars = list(set(tf.trainable_variables()) - set(baseline_vars))
model_vars(ar) == trainable_variables(ar) \ baseline_vars(ar)

\* faulty variant: the sum is taken in place, on the tensor that loss.value returned
add_to_opt_loss_in_place(o, term) ==
    [o EXCEPT !.opt_loss = @ + term, !.loss._value = TAdd(@, Scalar(term))]

\* opt_loss += term (lines 344 and 353): a new tensor, the Loss object is not touched
add_to_opt_loss(o, term) == [o EXCEPT !.opt_loss = @ + term]

\* lines 320-333: loss after the reconstruction term and the gated prior loss
\* pl; the exception of the first add call that raises
elbo_loss(ar, fd, up, pl) ==
    LET l0 == add(Loss, Scalar(reduce_mean(fd.rec_loss_per_sample)),
                  Vector(fd.rec_loss_per_sample), One)
    IN  IF ar.use_prior = "None" THEN l0
        ELSE IF pl.err # "none" THEN [self |-> Loss, err |-> pl.err]
        ELSE Then(l0, pl.loss, NoneT, prior_weight(up))

\* lines 339-341: self.reinforce_imp_weight
reinforce_imp_weight(nsp, fd, pl) ==
    IF nsp.analytic THEN Vector(fd.rec_loss_per_sample)
    ELSE TAdd(Vector(fd.rec_loss_per_sample), per_sample(pl.loss))

\* line 352: l2_weight * sum(map(tf.nn.l2_loss, weights)), biases left out
l2_loss(ar, fd) ==
    FMul(SetSum(fd.l2, {w \in model_vars(ar) : rank(w) = 2}), ar.l2_weight)

\* lines 336-353: opt_loss starts as loss.value; the REINFORCE term r and the L2
\* term are added to it
opt_loss_terms(ar, discrete, fd, l, r) ==
    LET o0 == [loss |-> l, opt_loss |-> value(l).data[1]]
        o1 == IF reinforce_entered(ar, discrete)
              THEN add_to_opt_loss(o0, r.reinforce_loss.data[1]) ELSE o0
    IN  IF ar.l2_weight > 0 THEN add_to_opt_loss(o1, l2_loss(ar, fd)) ELSE o1

\* the exception the construction raises, or "none"; self.prior_loss does not
\* exist when use_prior is None (line 341)
objective_raises(ar, discrete, nsp, l1) ==
    IF l1.err # "none" THEN l1.err
    ELSE IF reinforce_entered(ar, discrete) /\ ~nsp.analytic /\ ar.use_prior = "None"
    THEN "AttributeError"
    ELSE "none"

\* every tensor's value; NoneT for a tensor that was not formed
objective_values(ar, discrete, fd, pres, up, pl, imp, r, o) ==
    [err |-> "none",
     use_prior |-> up,
     presence |-> pres,
     num_step_per_sample |-> reduce_sum_axis0(pres),
     rec_loss |-> Scalar(reduce_mean(fd.rec_loss_per_sample)),
     rec_loss_per_sample |-> Vector(fd.rec_loss_per_sample),
     prior_loss |-> IF ar.use_prior # "None" THEN pl.loss ELSE Loss,
     prior_step_weight |-> IF ar.use_prior # "None" THEN pl.prior_step_weight ELSE <<>>,
     loss |-> o.loss,
     reinforce_imp_weight |-> IF reinforce_entered(ar, discrete) THEN imp ELSE NoneT,
     reinforce_loss |-> IF reinforce_entered(ar, discrete) THEN r.reinforce_loss ELSE NoneT,
     l2_loss |-> IF ar.l2_weight > 0 THEN Scalar(l2_loss(ar, fd)) ELSE NoneT,
     opt_loss |-> Scalar(o.opt_loss)]

objective_after_reinforce(ar, discrete, fd, pres, up, nsp, pl, l1, imp, r) ==
    IF objective_raises(ar, discrete, nsp, l1) # "none"
    THEN [err |-> objective_raises(ar, discrete, nsp, l1)]
    ELSE objective_values(ar, discrete, fd, pres, up, pl, imp, r,
                          opt_loss_terms(ar, discrete, fd, l1.self, r))

objective_after_elbo(ar, discrete, fd, pres, up, nsp, pl, l1, imp) ==
    objective_after_reinforce(ar, discrete, fd, pres, up, nsp, pl, l1, imp,
                              _reinforce(imp, ar, fd))

objective_after_prior(ar, discrete, fd, pres, up, nsp, pl) ==
    objective_after_elbo(ar, discrete, fd, pres, up, nsp, pl,
                         elbo_loss(ar, fd, up, pl), reinforce_imp_weight(nsp, fd, pl))

objective_under(ar, discrete, fd, pres, up, nsp) ==
    objective_after_prior(ar, discrete, fd, pres, up, nsp, _prior_loss(ar, nsp, fd, pres))

\* the objective of lines 320-354 on the minibatch fd, with presence pres and
\* the variable use_prior reading up: every tensor's value, or the exception
\* the construction raises
objective(ar, discrete, fd, pres, up) ==
    objective_under(ar, discrete, fd, pres, up, with_analytic(ar.num_steps_prior))

---------------------------------------------------------------------------
(* Spec: an AIRModel is constructed, train_step is called once on it, and  *)
(* the returned training step and toggle_prior are run in a session.       *)

\* runs of the training step
MaxRuns == 2

\* per-sample values are multiples of Grain, so that a batch mean of batch
\* means is exact
Grain == BatchSize * BatchSize * One

\* What the external modules return for a minibatch in which sample i is told
\* to continue n[i] times: the decisions of the steps, the continuation
\* probabilities (1 / ProbDen throughout), the reconstruction loss per sample,
\* the KL of the step count per sample, the KL of the appearance and of the pose
\* per step and sample (summed over the latent axis), the log-probability of
\* the realized step count, the baseline's prediction, and tf.nn.l2_loss of
\* every variable.
MakeFeed(n) ==
    [decisions |-> [t \in Steps |-> [i \in Batch |-> IF t <= n[i] THEN 1 ELSE 0]],
     presence_prob |-> [t \in Steps |-> [i \in Batch |-> 1]],
     rec_loss_per_sample |-> [i \in Batch |-> Grain * i],
     kl_num_steps |-> [i \in Batch |-> Grain],
     what_kl |-> [t \in Steps |-> [i \in Batch |-> Grain]],
     where_kl |-> [t \in Steps |-> [i \in Batch |-> 2 * Grain]],
     log_prob |-> [i \in Batch |-> (0 - (n[i] + 1)) * One],
     baseline |-> [i \in Batch |-> Grain],
     l2 |-> [v \in Params |-> One]]

\* a sample stops at once, after one step, or runs all the steps
Feeds == {MakeFeed(n) : n \in [Batch -> {0, 1, MaxSteps}]}

Normal == [loc |-> 0, scale |-> One]

\* num_steps_prior: None, or an AttrDict: without annealing (anneal = None), its
\* 'analytic' entry absent (True is then written) or False, or annealed
\* linearly from 1 to 0 over as many steps as there are runs
NumStepsPriors ==
    {PyNone,
     [anneal |-> "None", init |-> One],
     [anneal |-> "None", init |-> One, analytic |-> FALSE],
     [anneal |-> "linear", init |-> One, final |-> 0, steps |-> MaxRuns]}

TrainArgs ==
    {[l2_weight |-> l2, what_prior |-> what, where_scale_prior |-> where,
      where_shift_prior |-> where, num_steps_prior |-> nsp, use_prior |-> up,
      use_reinforce |-> ur, baseline |-> bl] :
        l2 \in {0, One}, what \in {PyNone, Normal}, where \in {PyNone, Normal},
        nsp \in NumStepsPriors, up \in {"None", "False", "True"}, ur \in BOOLEAN,
        bl \in {PyNone, [module |-> "baseline"]}}

NoOut == [err |-> "not run"]

InitTrain ==
    /\ discrete_steps \in BOOLEAN
    /\ feed \in Feeds
    /\ pc = "constructed"
    /\ raised = "none"
    /\ args = <<>>
    /\ attrs = <<>>
    /\ use_prior = "None"
    /\ global_step = 0
    /\ updates = [v \in Params |-> 0]
    /\ out = NoOut
    /\ IdleLossVars
    /\ IdleAnnealVars
    /\ IdleUnrollVars
    /\ IdleWeightVars

\* the presence of a run: the recurrence unrolled on the minibatch
forward_presence(discrete, fd) == dynamic_rnn(discrete, initial_presence, fd.decisions)

\* the exception the call raises, or "none"
train_step_raises(ar, discrete, fd) ==
    IF ar.num_steps_prior = PyNone
    THEN "TypeError"   \* line 295: None does not support item assignment
    ELSE objective(ar, discrete, fd, forward_presence(discrete, fd), ar.use_prior).err

\* faulty variant: the baseline's minimize is given global_step as well
returned_train_step_both_counting(ar, discrete) ==
    {[name |-> "_true_train_step", var_list |-> model_vars(ar), global_step |-> 1]}
    \cup (IF self_use_reinforce(ar, discrete) /\ ar.baseline # PyNone
          THEN {[name |-> "_baseline_tran_step", var_list |-> baseline_vars(ar),
                 global_step |-> 1]}
          ELSE {})

\* the update operations grouped into the returned step (lines 356-368):
\* the main one advances global_step, the baseline's does not
returned_train_step(ar, discrete) ==
    {[name |-> "_true_train_step", var_list |-> model_vars(ar), global_step |-> 1]}
    \cup (IF self_use_reinforce(ar, discrete) /\ ar.baseline # PyNone
          THEN {[name |-> "_baseline_tran_step", var_list |-> baseline_vars(ar),
                 global_step |-> 0]}
          ELSE {})

\* model.train_step(learning_rate, ...)
TrainStep(ar) ==
    /\ pc = "constructed"
    /\ args' = ar
    /\ LET e == train_step_raises(ar, discrete_steps, feed)
       IN  IF e # "none"
           THEN /\ pc' = "raised"
                /\ raised' = e
                /\ UNCHANGED <<attrs, use_prior>>
           ELSE /\ pc' = "ready"
                /\ raised' = "none"
                /\ attrs' = [use_reinforce |-> self_use_reinforce(ar, discrete_steps),
                             num_steps_prior |-> with_analytic(ar.num_steps_prior),
                             trainable |-> trainable_variables(ar),
                             baseline_vars |-> baseline_vars(ar),
                             model_vars |-> model_vars(ar),
                             _train_step |-> returned_train_step(ar, discrete_steps)]
                /\ use_prior' = ar.use_prior
    /\ UNCHANGED <<global_step, updates, feed, out>>

\* sess.run(model.toggle_prior): self.use_prior.assign(tf.logical_not(self.use_prior))
TogglePrior ==
    /\ pc = "ready"
    /\ use_prior # "None"
    /\ use_prior' = IF use_prior = "True" THEN "False" ELSE "True"
    /\ UNCHANGED <<pc, raised, args, attrs, global_step, updates, feed, out>>

\* the schedule's value in a run: the forward pass reads global_step before the
\* run's apply_gradients advances it; no value without _prior_loss (line 328)
run_steps_prior_success_prob(ar, gstep) ==
    IF ar.use_prior = "None" THEN [err |-> "not formed"]
    ELSE steps_prior_success_prob(ar.num_steps_prior, gstep)

\* sess.run(train_step): one forward pass on the minibatch, then every update
\* operation of the group
RunTrainStep ==
    /\ pc = "ready"
    /\ global_step < MaxRuns
    /\ out' = [steps_prior_success_prob |-> run_steps_prior_success_prob(args, global_step)]
                @@ objective(args, discrete_steps, feed,
                             forward_presence(discrete_steps, feed), use_prior)
    /\ updates' = [v \in Params |->
                     updates[v] + Cardinality({op \in attrs._train_step : v \in op.var_list})]
    /\ global_step' = global_step
                        + Cardinality({op \in attrs._train_step : op.global_step = 1})
    /\ UNCHANGED <<pc, raised, args, attrs, use_prior, feed>>

Next ==
    \/ \E ar \in TrainArgs :
            TrainStep(ar) /\ UNCHANGED <<varsLoss, varsAnneal, discrete_steps, varsUnroll, varsWeight>>
    \/ TogglePrior /\ UNCHANGED <<varsLoss, varsAnneal, discrete_steps, varsUnroll, varsWeight>>
    \/ RunTrainStep /\ UNCHANGED <<varsLoss, varsAnneal, discrete_steps, varsUnroll, varsWeight>>

Spec == InitTrain /\ [][Next]_vars

---------------------------------------------------------------------------
(* Claims *)

\* the first step at which sample i is absent, MaxSteps + 1 if there is none
FirstStop(i) ==
    IF \A t \in 1..Len(presence) : presence[t][i] = 1 THEN Len(presence) + 1
    ELSE CHOOSE t \in 1..Len(presence) :
            presence[t][i] = 0 /\ \A u \in 1..(t - 1) : presence[u][i] = 1

\* C1: with discrete_steps, presence never rises from one step to the next, for
\* every sample and whatever the decisions of the later steps; the realized step
\* count is then the number of steps before the first stop, within 0..max_steps.
C1_PresenceNonIncreasing ==
    discrete_steps =>
        /\ \A i \in Batch : \A t \in 1..(Len(presence) - 1) :
                presence[t + 1][i] <= presence[t][i]
        /\ num_step_per_sample # <<>> =>
                \A i \in Batch : /\ num_step_per_sample[i] = FirstStop(i) - 1
                                 /\ num_step_per_sample[i] \in 0..MaxSteps

\* a sample stopped at the first step and was told to continue afterwards
C1_Witness ==
    /\ discrete_steps /\ num_step_per_sample # <<>>
    /\ \E i \in Batch : /\ decisions[1][i] = 0 /\ decisions[2][i] = 1
                         /\ presence[2][i] = 0 /\ num_step_per_sample[i] = 0
    /\ \E i \in Batch : num_step_per_sample[i] = MaxSteps

\* C3 (as claimed): after add calls that did not raise, `value` is the scalar sum
\* of weight * loss and `per_sample` is the vector sum of weight * per_sample.
C3_AccessorsReturnBothAggregates ==
    \A n \in LossNames :
        (lossErr = "none" /\ nAdds[n] > 0) =>
            /\ value(losses[n]) = Scalar(expected[n].value)
            /\ per_sample(losses[n]) = Vector(expected[n].per_sample)

\* a call that added a scalar loss and a per-sample vector
VectorCall == lastCall.target \in LossNames /\ lastCall.loss # NoneT /\ lastCall.per_sample # NoneT

\* the call's vector disagrees in shape with the vector accumulated before it
Mismatch ==
    /\ lastCall.before._per_sample # NoneT
    /\ get_shape(lastCall.before._per_sample) # get_shape(lastCall.per_sample)

\* C7: an add whose per-sample vector differs in shape from the accumulated one
\* raises the assertion error and leaves the accumulated vector as it was; an add
\* of a vector of the accumulated shape (or the first one) does not raise.
C7_ShapeMismatchIsFatal ==
    VectorCall =>
        IF Mismatch
        THEN /\ lossErr = "AssertionError"
             /\ losses[lastCall.target]._per_sample = lastCall.before._per_sample
        ELSE lossErr = "none"

C7_Witness == VectorCall /\ Mismatch /\ lossErr = "AssertionError"

\* the value returned equals x
AnnealIs(x) == annealOut.num = x * annealOut.den

AnnealEvaluated == annealOut.at >= 0 /\ annealArgs.anneal = "linear"

\* the claimed value at effective step e
LinearFormula(e) ==
    LET a == annealArgs
    IN  Max(a.final * a.steps, a.final * a.steps + (a.init - a.final) * (a.steps - e))

AnnealClaim ==
    LET a == annealArgs
        e == Max(annealOut.at - a.hold_init, 0)
    IN  /\ annealOut.num = LinearFormula(e) /\ annealOut.den = a.steps
        /\ (annealOut.at <= a.hold_init => AnnealIs(a.init))
        /\ (annealOut.at >= a.hold_init + a.steps => AnnealIs(a.final))
        /\ annealOut.num >= a.final * annealOut.den

\* C8 (as claimed): the linear schedule returns the clamped interpolation; hence
\* `initial` up to hold_for, `final` at hold_for + total_steps and ever after.
C8_LinearSchedule == AnnealEvaluated => AnnealClaim

\* C8 (amended): the same, for schedules that decay (initial >= final).
C8_LinearDecay == (AnnealEvaluated /\ annealArgs.init >= annealArgs.final) => AnnealClaim

C8_Witness ==
    /\ AnnealEvaluated /\ annealArgs.init > annealArgs.final
    /\ annealOut.at > annealArgs.hold_init + annealArgs.steps
    /\ AnnealIs(annealArgs.final)

\* the training step has run: out holds the values of its tensors
Ran == out.err = "none"

\* the value of a scalar tensor; 0 for a term that was not formed
Val(t) == IF t = NoneT THEN 0 ELSE t.data[1]

\* the minibatch with every KL divergence at zero
ZeroKL(fd) ==
    [fd EXCEPT !.kl_num_steps = [i \in Batch |-> 0],
               !.what_kl = [t \in Steps |-> [i \in Batch |-> 0]],
               !.where_kl = [t \in Steps |-> [i \in Batch |-> 0]]]

\* C2 (as claimed): with use_prior off, the KL terms contribute exactly zero to
\* the objective: the reported loss is the reconstruction loss, and the
\* optimized objective is what it would be were every KL divergence zero, so
\* that no prior setting has a part in its value.
C2_PriorOffNoKL ==
    (Ran /\ out.use_prior = "False") =>
        /\ Val(value(out.loss)) = Val(out.rec_loss)
        /\ out.opt_loss = objective(args, discrete_steps, ZeroKL(feed),
                                    out.presence, "False").opt_loss

\* C4 (as claimed): the importance weight of sample i, before the baseline is
\* subtracted, is rec_loss_per_sample[i], plus the sample's own accumulated
\* prior loss when the step-count prior is not analytic.
C4_ImportanceWeightPerSample ==
    (Ran /\ out.reinforce_imp_weight # NoneT) =>
        \A i \in Batch :
            out.reinforce_imp_weight.data[i] =
                out.rec_loss_per_sample.data[i]
                  + (IF attrs.num_steps_prior.analytic THEN 0
                     ELSE out.prior_loss._per_sample.data[i])

\* the gate as the run read it
Gate == IF out.use_prior = "True" THEN One ELSE 0

\* C5: the reported loss is reconstruction plus the gated KL sum, with or without
\* REINFORCE and L2; opt_loss exceeds it by the REINFORCE batch mean plus the L2
\* penalty, each where formed.
C5_ReinforceAndL2OnlyInOptLoss ==
    Ran =>
        /\ Val(value(out.loss)) = Val(out.rec_loss) + FMul(Val(value(out.prior_loss)), Gate)
        /\ Val(out.opt_loss) - Val(value(out.loss))
              = Val(out.reinforce_loss) + Val(out.l2_loss)

C5_Witness ==
    /\ Ran /\ Gate = One /\ Val(value(out.prior_loss)) > 0
    /\ out.reinforce_loss # NoneT /\ Val(out.reinforce_loss) # 0
    /\ out.l2_loss # NoneT /\ Val(out.l2_loss) > 0

\* the update operation of the returned group with that name, if any
Op(name) == {op \in attrs._train_step : op.name = name}

\* REINFORCE in effect (use_reinforce and discrete_steps) with a baseline module
ReinforceWithBaseline == pc = "ready" /\ attrs.use_reinforce /\ args.baseline # PyNone

C9_ReinforceOnlyWhenDiscrete ==
    Ran =>
        /\ (out.reinforce_loss # NoneT => (args.use_reinforce /\ discrete_steps))
        /\ (~discrete_steps => Val(out.opt_loss) = Val(value(out.loss)) + Val(out.l2_loss))

\* C10 (as claimed): train_step with num_steps_prior = None returns without an
\* error; the objective then has no step-count KL and weighs the appearance and
\* pose KL by the presence bits.
C10_StepPriorOptional ==
    (pc # "constructed" /\ args.num_steps_prior = PyNone) =>
        /\ pc = "ready"
        /\ raised = "none"
        /\ Ran => out.prior_step_weight
                    = [t \in Steps |-> [i \in Batch |-> ToFloat(out.presence[t][i])]]

\* the posterior mass of the step counts t..max_steps of sample i
TailMass(t, i) ==
    LET q == num_steps_posterior_prob(weightProb)[i]
    IN  SeqSum([u \in 1..(MaxSteps - t + 1) |-> q[t + u]])

\* C11: in analytic mode the weight of step t is the posterior mass of the step
\* counts t..max_steps, which is the product of the first t continuation
\* probabilities; the weights lie in [0, 1] and do not rise with t.
C11_AnalyticStepWeight ==
    weightOut # <<>> =>
        \A i \in Batch : \A t \in Steps :
            /\ weightOut[t][i] = TailMass(t, i)
            /\ weightOut[t][i] * Pow(ProbDen, t)
                  = One * ProdFirst([k \in Steps |-> weightProb[k][i]], t)
            /\ weightOut[t][i] \in 0..One
            /\ t < MaxSteps => weightOut[t + 1][i] <= weightOut[t][i]

\* a sample whose weights fall strictly, from below 1 to above 0
C11_Witness ==
    /\ weightOut # <<>>
    /\ \E i \in Batch :
          /\ weightOut[1][i] < One
          /\ weightOut[MaxSteps][i] > 0
          /\ \A t \in 1..(MaxSteps - 1) : weightOut[t + 1][i] < weightOut[t][i]
    /\ \E i \in Batch : weightOut[1][i] = 0

\* a step that ran the training step
Executed == updates' # updates \/ global_step' # global_step \/ out' # out

\* the step-count prior of the call is annealed, and the run evaluated it
Annealed ==
    /\ pc = "ready" /\ Ran
    /\ args.use_prior # "None" /\ args.num_steps_prior.anneal = "linear"

\* the run evaluated the linear schedule at step n
EvaluatedAt(n) ==
    LET a == args.num_steps_prior
        v == out.steps_prior_success_prob
    IN  v.num * a.steps = v.den * Max(a.final * a.steps,
                                      a.final * a.steps + (a.init - a.final) * (a.steps - n))

\* C12: every run of the returned training step advances global_step by exactly
\* one, with or without the baseline update in the group; global_step is then
\* the number of runs so far, and a run after n runs evaluates the annealing
\* schedule at step n (global_step starts at 0).
C12_GlobalStepAdvancesByOne ==
    /\ [][Executed => global_step' = global_step + 1]_vars
    /\ [](pc = "ready" => global_step = updates["AIRModel/w"])
    /\ [](Annealed => EvaluatedAt(global_step - 1))

\* two runs with the baseline update in the group; the second run evaluated the
\* schedule one step into its decay
C12_Witness ==
    /\ Annealed /\ Cardinality(attrs._train_step) = 2
    /\ global_step = 2
    /\ EvaluatedAt(1) /\ ~EvaluatedAt(0) /\ ~EvaluatedAt(2)

=============================================================================
